---- MODULE Spec2Model ----
(***************************************************************************)
(* Model of src/app/components/story-upload-modal.tsx: the StoryUploadModal *)
(* component (its React state, its event handlers and the asynchronous     *)
(* continuation of handleFileSelect) and the moderation pipeline of        *)
(* analyzeMediaWithClaude.                                                 *)
(*                                                                         *)
(* JavaScript values are encoded as follows.                               *)
(*   - an optional field (aiAnalysis?, error?) is a sequence of length 0   *)
(*     (absent / undefined) or 1 (the value);                              *)
(*   - a MIME type "image/png" is the pair <<"image", "png">>, so that     *)
(*     startsWith('image/') is a test of the first component;              *)
(*   - an Error message built by a template literal is the sequence of its *)
(*     parts; the message of a rejection value that is no Error (a DOM     *)
(*     Event) is undefined, the empty sequence;                            *)
(*   - an object URL is the number of the createObjectURL call that made   *)
(*     it (the browser never hands out the same blob URL twice);           *)
(*   - a record id is Math.random().toString(36).substring(7): a value the *)
(*     code draws at random, with nothing that keeps two draws apart.      *)
(***************************************************************************)
EXTENDS Integers, Sequences, FiniteSets, TLC

\* ------------------------------------------------------------------ bounds

\* Accepted file selections (createObjectURL calls) in one behaviour.
MaxSelections == 2
\* Publish timers (setTimeout of handlePublish) pending at once.
MaxTimers == 1

\* ------------------------------------------------------------ JS values

Undefined == "undefined"

None == <<>>

Some(v) == <<v>>

\* a ?? b
Coalesce(a, b) == IF a = Undefined THEN b ELSE a

\* s.startsWith(prefix + '/') for a MIME type s
StartsWith(mime, prefix) == mime[1] = prefix

\* The values of newMedia.id: one per selection is enough to keep them apart.
Ids == 1..MaxSelections

Urls == 1..MaxSelections

MimeTypes == { <<"image", "png">>, <<"video", "mp4">>, <<"application", "pdf">> }

\* event.target.files: no file, or the one chosen file
FileLists == { <<>> } \cup { <<[type |-> t]>> : t \in MimeTypes }

VARIABLES
  open,               \* the `open` prop
  uploadedMedia,      \* useState<UploadedMedia[]>
  isPublishing,       \* useState(false)
  showSuccessDialog,  \* useState(false)
  env,                \* import.meta.env: VITE_ANTHROPIC_API_KEY, VITE_ANTHROPIC_MODEL
  inflight,           \* the handleFileSelect invocations suspended at their await
  timers,             \* pending setTimeout callbacks of handlePublish
  nextUrl,            \* number of URL.createObjectURL calls made for previews
  revoked,            \* per preview URL, the number of URL.revokeObjectURL calls
  lastOp              \* history: the handler that ran last, and its input

vars ==
  << open, uploadedMedia, isPublishing, showSuccessDialog, env, inflight,
     timers, nextUrl, revoked, lastOp >>

\* ------------------------------------------------- the moderation pipeline

\* import.meta.env as the build may fix it: the credential absent, empty or
\* set, the model identifier absent or set.
Envs ==
  { [ apiKey |-> Undefined, model |-> Undefined ],
    [ apiKey |-> "", model |-> "claude-custom" ],
    [ apiKey |-> "sk-ant-test", model |-> Undefined ],
    [ apiKey |-> "sk-ant-test", model |-> "claude-custom" ] }

DefaultModel == "claude-sonnet-4-20250514"

\* const model = env.VITE_ANTHROPIC_MODEL ?? 'claude-sonnet-4-20250514'
Model(e) == Coalesce(e.model, DefaultModel)

\* !apiKey
MissingKey(e) == e.apiKey \in { Undefined, "" }

IsVideoFile(file) == StartsWith(file.type, "video")

IsImageFile(file) == StartsWith(file.type, "image")

ConfigErrorMessage ==
  << "Missing VITE_ANTHROPIC_API_KEY. Add it to your .env and restart the dev server." >>

\* The ways the awaited encoding step of line 72 settles. extractVideoFrame
\* resolves in its 'seeked' listener, rejects with the exception caught there,
\* or rejects with the 'error' Event; fileToBase64 resolves in onload or
\* rejects with the onerror ProgressEvent.
EncodeOutcomes(file) ==
  IF IsVideoFile(file) THEN { "resolved", "errorEvent", "exception" }
  ELSE { "resolved", "errorEvent" }

\* (err as Error).message of a rejected encoding step: an Event carries no
\* message; the exception caught in the 'seeked' listener is an Error.
EncodeErrorMessage(outcome) ==
  IF outcome = "exception" THEN << "Failed to execute 'toDataURL' on 'HTMLCanvasElement'" >>
  ELSE None

\* The keys of flaggedCategories with their labels, in the order
\* Object.entries(FLAG_LABELS) lists them (lines 512-519).
FLAG_LABELS ==
  << << "nudity", "Nudity / Sexual content" >>,
     << "profanity", "Profanity / Offensive text" >>,
     << "violence", "Violence / Gore" >>,
     << "illegalItems", "Drugs / Weapons / Illegal items" >>,
     << "contactInfo", "Contact information" >>,
     << "offTopicContent", "Off-topic content" >> >>

Categories == { FLAG_LABELS[k][1] : k \in DOMAIN FLAG_LABELS }

\* A flaggedCategories object: true for the keys of `flagged`, false otherwise.
Flags(flagged) == [ key \in Categories |-> key \in flagged ]

\* The fallback object of lines 166-173.
NoFlags == Flags({})

\* confidence is kept in thousandths: 900 is 0.9 (line 165).
DefaultConfidence == 900

\* a ?? b for an optional value a
OrElse(a, b) == IF a = None THEN b ELSE a[1]

\* A verdict object as JSON.parse returns it. moderationStatus and
\* contentType are strings or undefined; tags, moderationReasons, confidence
\* and flaggedCategories are optional values.
Verdict(status, contentType, tags, reasons, confidence, flags) ==
  [ moderationStatus |-> status, contentType |-> contentType, tags |-> tags,
    moderationReasons |-> reasons, confidence |-> confidence,
    flaggedCategories |-> flags ]

\* A verdict with every optional field left out.
BareVerdict(status) == Verdict(status, Undefined, None, None, None, None)

\* Verdicts of the endpoint: a safe one with every field, a safe one and one
\* without moderationStatus with no optional field, an unsafe one with two
\* categories flagged.
ParsedVerdicts ==
  { Verdict("safe", "Hair Colouring", Some(<< "balayage", "blonde" >>), Some(<<>>),
            Some(873), Some(NoFlags)),
    BareVerdict("safe"),
    Verdict("unsafe", "Hair Colouring", Some(<< "balayage" >>),
            Some(<< "A phone number is visible" >>), Some(950),
            Some(Flags({ "nudity", "contactInfo" }))),
    BareVerdict(Undefined) }

\* Safe verdicts with every subset of the five optional fields left out, the
\* supplied values all different from the defaults.
SafeVerdicts ==
  { Verdict("safe", contentType, tags, reasons, confidence, flags) :
      contentType \in { Undefined, "Hair Colouring" },
      tags \in { None, Some(<< "balayage", "blonde" >>) },
      reasons \in { None, Some(<< "Borderline, allowed" >>) },
      confidence \in { None, Some(873) },
      flags \in { None, Some(Flags({ "offTopicContent" })) } }

\* Unsafe verdicts with two of the six categories flagged, every pair of them.
UnsafeVerdicts ==
  { Verdict("unsafe", "Hair Colouring", Some(<< "balayage" >>), reasons,
            Some(950), Some(Flags(pair))) :
      pair \in { flagged \in SUBSET Categories : Cardinality(flagged) = 2 },
      reasons \in { None, Some(<< "A phone number is visible" >>) } }

\* The object with 1.0 for a missing confidence.
BuildAnalysisFullConfidence(parsed) ==
  [ contentType |-> << Coalesce(parsed.contentType, "Unknown") >>,
    tags |-> OrElse(parsed.tags, <<>>),
    moderationStatus |-> parsed.moderationStatus,
    moderationReasons |-> OrElse(parsed.moderationReasons, <<>>),
    confidence |-> OrElse(parsed.confidence, 1000),
    flaggedCategories |-> OrElse(parsed.flaggedCategories, NoFlags) ]

\* The object analyzeMediaWithClaude returns (lines 160-174).
BuildAnalysis(parsed) ==
  [ contentType |-> << Coalesce(parsed.contentType, "Unknown") >>,
    tags |-> OrElse(parsed.tags, <<>>),
    moderationStatus |-> parsed.moderationStatus,
    moderationReasons |-> OrElse(parsed.moderationReasons, <<>>),
    confidence |-> OrElse(parsed.confidence, DefaultConfidence),
    flaggedCategories |-> OrElse(parsed.flaggedCategories, NoFlags) ]

\* What the awaited fetch settles with, given the verdicts the endpoint may
\* send: a rejection (network failure) or a response; a body is its raw text
\* and what JSON.parse makes of the cleaned text (None: it throws).
Responses(verdicts) ==
  { [ rejected |-> TRUE, status |-> "0",
      body |-> [ text |-> "", parsed |-> None ] ] }
  \cup { [ rejected |-> FALSE, status |-> s,
           body |-> [ text |-> "not_found_error", parsed |-> None ] ] :
         s \in { "404", "500" } }
  \cup { [ rejected |-> FALSE, status |-> "200",
           body |-> [ text |-> "Sorry, I cannot help", parsed |-> None ] ] }
  \cup { [ rejected |-> FALSE, status |-> "200",
           body |-> [ text |-> "{...}", parsed |-> Some(v) ] ] :
         v \in verdicts }

FetchResults == Responses(ParsedVerdicts)

\* The results of an endpoint that sends every verdict of SafeVerdicts and
\* UnsafeVerdicts.
MockedResults == Responses(SafeVerdicts \cup UnsafeVerdicts)

\* response.ok
ResponseOk(r) == r.status = "200"

\* The message of line 152 for every status, 404 included.
HttpErrorMessageGeneric(status, text, model) ==
  << "Moderation API error (", status, "): ", text >>

\* The Error thrown for a non-success status (lines 144-153).
HttpErrorMessage(status, text, model) ==
  IF status = "404"
  THEN << "Moderation API error (", "404", "): model \"", model,
          "\" not found for this API key. ",
          "Double-check VITE_ANTHROPIC_MODEL against the /v1/models list. Raw: ",
          text >>
  ELSE << "Moderation API error (", status, "): ", text >>

ParseErrorMessage == << "Unexpected token in JSON" >>

NetworkErrorMessage == << "Failed to fetch" >>

Return(analysis) == [ ok |-> TRUE, analysis |-> Some(analysis), message |-> None ]

Throw(message) == [ ok |-> FALSE, analysis |-> None, message |-> message ]

\* analyzeMediaWithClaude from the settled fetch on (lines 112-174).
AfterFetch(r, e) ==
  IF r.rejected THEN Throw(NetworkErrorMessage)
  ELSE IF ~ResponseOk(r) THEN Throw(HttpErrorMessage(r.status, r.body.text, Model(e)))
  ELSE IF r.body.parsed = None THEN Throw(ParseErrorMessage)
  ELSE Return(BuildAnalysis(r.body.parsed[1]))

\* ------------------------------------------------------- the upload list

\* A type check that lets application/* through as well.
IsAcceptedFileAnyType(file) == file.type[1] \in { "image", "video", "application" }

\* !(!isImage && !isVideo): the file passes the check of lines 190-192.
IsAcceptedFile(file) == IsImageFile(file) \/ IsVideoFile(file)

\* A record created as already approved.
NewMediaApproved(id, file, url) ==
  [ id |-> id, file |-> file, url |-> url,
    type |-> IF IsImageFile(file) THEN "image" ELSE "video",
    status |-> "approved", aiAnalysis |-> None, error |-> None ]

\* const newMedia: UploadedMedia = {...} (lines 198-204)
NewMedia(id, file, url) ==
  [ id |-> id, file |-> file, url |-> url,
    type |-> IF IsImageFile(file) THEN "image" ELSE "video",
    status |-> "analyzing", aiAnalysis |-> None, error |-> None ]

\* The record appended to the list instead of replacing it.
SelectedListAppend(prev, media) == Append(prev, media)

\* setUploadedMedia([newMedia]) (line 206)
SelectedList(prev, media) == << media >>

\* prev.map(m => m.id !== id ? m : {...m, status, aiAnalysis}) (lines 213-221)
ApplyAnalysis(prev, id, analysis) ==
  [ i \in DOMAIN prev |->
      IF prev[i].id # id THEN prev[i]
      ELSE [ prev[i] EXCEPT
               !.status = IF analysis.moderationStatus = "safe"
                          THEN "approved" ELSE "rejected",
               !.aiAnalysis = Some(analysis) ] ]

\* The message stored with the status left as it was.
ApplyErrorKeepsStatus(prev, id, message) ==
  [ i \in DOMAIN prev |->
      IF prev[i].id # id THEN prev[i] ELSE [ prev[i] EXCEPT !.error = message ] ]

\* prev.map(m => m.id !== id ? m : {...m, status: 'error', error}) (lines 223-231)
ApplyError(prev, id, message) ==
  [ i \in DOMAIN prev |->
      IF prev[i].id # id THEN prev[i]
      ELSE [ prev[i] EXCEPT !.status = "error", !.error = message ] ]

\* The update applied to the record at hand, whatever its id.
ApplyResultNoIdCheck(prev, id, result) ==
  [ i \in DOMAIN prev |->
      IF result.ok
      THEN [ prev[i] EXCEPT
               !.status = IF result.analysis[1].moderationStatus = "safe"
                          THEN "approved" ELSE "rejected",
               !.aiAnalysis = result.analysis ]
      ELSE [ prev[i] EXCEPT !.status = "error", !.error = result.message ] ]

\* The state update a settled pipeline run ends with (lines 211-232).
ApplyResult(prev, id, result) ==
  IF result.ok THEN ApplyAnalysis(prev, id, result.analysis[1])
  ELSE ApplyError(prev, id, result.message)

HasId(list, id) == \E i \in DOMAIN list : list[i].id = id

\* prev.filter(m => m.id !== id) (line 239)
FilterOutId(prev, id) == SelectSeq(prev, LAMBDA m : m.id # id)

\* prev.find(m => m.id === id) (line 237), where there is one
FindById(prev, id) ==
  prev[CHOOSE i \in DOMAIN prev :
         /\ prev[i].id = id
         /\ \A j \in DOMAIN prev : prev[j].id = id => i <= j]

\* URL.revokeObjectURL on every url of `urls`
Revoke(rev, urls) == [ u \in DOMAIN rev |-> IF u \in urls THEN rev[u] + 1 ELSE rev[u] ]

UrlsOf(list) == { list[i].url : i \in DOMAIN list }

CountStatus(list, status) == Len(SelectSeq(list, LAMBDA m : m.status = status))

approvedCount == CountStatus(uploadedMedia, "approved")

analyzingCount == CountStatus(uploadedMedia, "analyzing")

\* The control disabled only while a record is analyzing.
PublishDisabledAnalyzingOnly == analyzingCount > 0

\* disabled={approvedCount === 0 || analyzingCount > 0} (line 317)
PublishDisabled == approvedCount = 0 \/ analyzingCount > 0

\* ----------------------------------------------------------- the machine

\* History of the last step: the handler; for handleFileSelect the file list
\* it was handed and the length of the list it started from; for a settled
\* run, whether no record of the list had its id.
Op(name, files, stale, prevLen) ==
  [ op |-> name, files |-> files, stale |-> stale, prevLen |-> prevLen ]

\* A handleFileSelect invocation suspended at an await of
\* analyzeMediaWithClaude: `call` is the invocation (the url it allocated),
\* `id` the newMedia.id its closure holds, `pc` the await it waits at.
Run(call, id, file, pc) == [ call |-> call, id |-> id, file |-> file, pc |-> pc ]

Init ==
  /\ open = FALSE
  /\ uploadedMedia = <<>>
  /\ isPublishing = FALSE
  /\ showSuccessDialog = FALSE
  /\ env \in Envs
  /\ inflight = {}
  /\ timers = 0
  /\ nextUrl = 0
  /\ revoked = [ u \in Urls |-> 0 ]
  /\ lastOp = Op("init", <<>>, FALSE, 0)

\* The host sets the `open` prop; the component renders (line 262).
OpenModal ==
  /\ ~open
  /\ open' = TRUE
  /\ lastOp' = Op("open", <<>>, FALSE, 0)
  /\ UNCHANGED << uploadedMedia, isPublishing, showSuccessDialog, env, inflight,
                  timers, nextUrl, revoked >>

\* Cancel and the back arrow: onOpenChange(false) (lines 306, 316).
CancelModal ==
  /\ open
  /\ open' = FALSE
  /\ lastOp' = Op("cancel", <<>>, FALSE, 0)
  /\ UNCHANGED << uploadedMedia, isPublishing, showSuccessDialog, env, inflight,
                  timers, nextUrl, revoked >>

\* The file input is part of the empty-list layout only (lines 370-391).
FileInputRendered == open /\ Len(uploadedMedia) = 0

\* handleFileSelect up to its first await (lines 185-212). `rendered` is the
\* condition under which the input that fires the change event exists.
HandleFileSelect(rendered, files, id) ==
  /\ rendered
  /\ lastOp' = Op("handleFileSelect", files, FALSE, Len(uploadedMedia))
  /\ IF files = <<>> \/ ~IsAcceptedFile(files[1])
     THEN UNCHANGED << open, uploadedMedia, isPublishing, showSuccessDialog, env,
                       inflight, timers, nextUrl, revoked >>
     ELSE /\ nextUrl < MaxSelections
          /\ revoked' = Revoke(revoked, UrlsOf(uploadedMedia))
          /\ nextUrl' = nextUrl + 1
          /\ uploadedMedia' = SelectedList(uploadedMedia, NewMedia(id, files[1], nextUrl + 1))
          /\ inflight' = inflight \cup { Run(nextUrl + 1, id, files[1], "encode") }
          /\ UNCHANGED << open, isPublishing, showSuccessDialog, env, timers >>

\* The catch / then continuation of handleFileSelect (lines 213-231).
Settle(run, result) ==
  /\ uploadedMedia' = ApplyResult(uploadedMedia, run.id, result)
  /\ inflight' = inflight \ { run }
  /\ lastOp' = Op("settled", <<>>, ~HasId(uploadedMedia, run.id), 0)

\* The encoding step of line 72 settles; on success the run goes on to the
\* credential check of line 78 and, past it, issues the fetch of line 112.
EncodeSettles(run, outcome) ==
  /\ run \in inflight
  /\ run.pc = "encode"
  /\ outcome \in EncodeOutcomes(run.file)
  /\ IF outcome # "resolved"
     THEN Settle(run, Throw(EncodeErrorMessage(outcome)))
     ELSE IF MissingKey(env)
     THEN Settle(run, Throw(ConfigErrorMessage))
     ELSE /\ inflight' = (inflight \ { run })
                           \cup { Run(run.call, run.id, run.file, "fetch") }
          /\ lastOp' = Op("fetch", <<>>, FALSE, 0)
          /\ UNCHANGED uploadedMedia
  /\ UNCHANGED << open, isPublishing, showSuccessDialog, env, timers, nextUrl,
                  revoked >>

\* The fetch of line 112 settles and the run finishes (lines 144-232).
FetchSettles(run, r) ==
  /\ run \in inflight
  /\ run.pc = "fetch"
  /\ Settle(run, AfterFetch(r, env))
  /\ UNCHANGED << open, isPublishing, showSuccessDialog, env, timers, nextUrl,
                  revoked >>

\* removeMedia (lines 235-241), from the X button of a listed record (line 428).
RemoveMedia(id) ==
  /\ open
  /\ HasId(uploadedMedia, id)
  /\ revoked' = Revoke(revoked, { FindById(uploadedMedia, id).url })
  /\ uploadedMedia' = FilterOutId(uploadedMedia, id)
  /\ lastOp' = Op("removeMedia", <<>>, FALSE, 0)
  /\ UNCHANGED << open, isPublishing, showSuccessDialog, env, inflight, timers,
                  nextUrl >>

\* handlePublish up to its await (lines 243-247), from the enabled button.
HandlePublish ==
  /\ open
  /\ ~PublishDisabled
  /\ approvedCount > 0
  /\ timers < MaxTimers
  /\ isPublishing' = TRUE
  /\ timers' = timers + 1
  /\ lastOp' = Op("handlePublish", <<>>, FALSE, 0)
  /\ UNCHANGED << open, uploadedMedia, showSuccessDialog, env, inflight, nextUrl,
                  revoked >>

\* The 2000 ms timer of handlePublish fires (lines 248-249).
PublishTimeout ==
  /\ timers > 0
  /\ timers' = timers - 1
  /\ isPublishing' = FALSE
  /\ showSuccessDialog' = TRUE
  /\ lastOp' = Op("publishTimeout", <<>>, FALSE, 0)
  /\ UNCHANGED << open, uploadedMedia, env, inflight, nextUrl, revoked >>

\* handleSuccessClose (lines 253-257), from the success dialog's Done button.
HandleSuccessClose ==
  /\ open
  /\ showSuccessDialog
  /\ showSuccessDialog' = FALSE
  /\ uploadedMedia' = <<>>
  /\ open' = FALSE
  /\ lastOp' = Op("handleSuccessClose", <<>>, FALSE, 0)
  /\ UNCHANGED << isPublishing, env, inflight, timers, nextUrl, revoked >>

IdsInUse ==
  { run.id : run \in inflight } \cup { uploadedMedia[i].id : i \in DOMAIN uploadedMedia }

\* What Math.random().toString(36).substring(7) may give (line 199): the id
\* of a listed record or of a pending run (a collision), or an id not in use.
\* Ids are only ever compared for equality (lines 215, 225, 237, 239), so the
\* ids not in use are all alike and the least of them stands for them.
DrawnIds ==
  IdsInUse \cup { id \in Ids \ IdsInUse : \A other \in Ids \ IdsInUse : id <= other }

\* The steps of the user and of the timer, the change event of the file
\* input aside.
UserStep ==
  \/ OpenModal
  \/ CancelModal
  \/ \E id \in Ids : RemoveMedia(id)
  \/ HandlePublish
  \/ PublishTimeout
  \/ HandleSuccessClose

\* An encoding step of a run settles.
EncodeStep ==
  \E run \in inflight : \E outcome \in { "resolved", "errorEvent", "exception" } :
    EncodeSettles(run, outcome)

\* Every step but the change event of the file input.
OtherStep ==
  \/ UserStep
  \/ EncodeStep
  \/ \E run \in inflight : \E r \in FetchResults : FetchSettles(run, r)

\* The component as the browser drives it.
Next ==
  \/ \E files \in FileLists : \E id \in DrawnIds :
       HandleFileSelect(FileInputRendered, files, id)
  \/ OtherStep

Spec == Init /\ [][Next]_vars

\* The handlers as functions of the state they find: handleFileSelect runs
\* whatever the list holds (as a test driving the handler does), so that its
\* "Clear existing media" branch (lines 194-206) is exercised. Every behaviour
\* of Spec is a behaviour of HandlerSpec.
HandlerNext ==
  \/ \E files \in FileLists : \E id \in DrawnIds : HandleFileSelect(open, files, id)
  \/ OtherStep

HandlerSpec == Init /\ [][HandlerNext]_vars

\* The component against the mocked endpoint of MockedResults, for the first
\* file the user uploads: the change event is taken while no object URL has
\* been created yet, every other step as in Spec.
MockedNext ==
  \/ \E files \in FileLists : \E id \in DrawnIds :
       HandleFileSelect(FileInputRendered /\ nextUrl = 0, files, id)
  \/ UserStep
  \/ EncodeStep
  \/ \E run \in inflight : \E r \in MockedResults : FetchSettles(run, r)

MockedSpec == Init /\ [][MockedNext]_vars

\* The moderation call started by the `call`-th accepted selection takes its
\* next step: its encoding settles or its fetch settles.
CallSettles(call) ==
  \E run \in inflight :
    /\ run.call = call
    /\ \/ \E outcome \in { "resolved", "errorEvent", "exception" } :
            EncodeSettles(run, outcome)
       \/ \E r \in FetchResults : FetchSettles(run, r)

\* The component where every promise awaited at lines 72 and 112 settles in
\* the end: no moderation call stays pending forever.
LiveSpec == Spec /\ \A call \in 1..MaxSelections : WF_vars(CallSettles(call))

\* ------------------------------------------------------- AIAnalysisPanel

\* Object.entries(FLAG_LABELS).filter(([key]) => flags[key]) (line 558)
TriggeredFlags(flags) == SelectSeq(FLAG_LABELS, LAMBDA entry : flags[entry[1]])

\* One row per category, marked "Flagged" or "Clear" (lines 700-713).
ApprovedRows(flags) ==
  [ k \in DOMAIN FLAG_LABELS |->
      << FLAG_LABELS[k][2], IF flags[FLAG_LABELS[k][1]] THEN "Flagged" ELSE "Clear" >> ]

\* The rejected panel listing all six categories, as the approved panel does.
RejectedRowsAll(flags) == ApprovedRows(flags)

\* One row per triggered flag, marked "Flagged" (lines 596-611).
RejectedRows(flags) ==
  [ k \in DOMAIN TriggeredFlags(flags) |-> << TriggeredFlags(flags)[k][2], "Flagged" >> ]

\* Math.round(confidence * 100) (line 624), confidence in thousandths.
ConfidencePct(confidence) == (confidence + 5) \div 10

\* What AIAnalysisPanel returns for a record (lines 521-720).
AIAnalysisPanel(media) ==
  IF media.status = "analyzing" THEN [ view |-> "analyzing" ]
  ELSE IF media.status = "error"
  THEN [ view |-> "error",
         message |-> IF media.error = None
                     THEN << "An unexpected error occurred. Please try again." >>
                     ELSE media.error ]
  ELSE IF media.status = "rejected" /\ media.aiAnalysis # None
  THEN [ view |-> "rejected",
         reasons |-> media.aiAnalysis[1].moderationReasons,
         rows |-> RejectedRows(media.aiAnalysis[1].flaggedCategories) ]
  ELSE IF media.status = "approved" /\ media.aiAnalysis # None
  THEN [ view |-> "approved",
         contentType |-> media.aiAnalysis[1].contentType[1],
         tags |-> media.aiAnalysis[1].tags,
         confidencePct |-> ConfidencePct(media.aiAnalysis[1].confidence),
         rows |-> ApprovedRows(media.aiAnalysis[1].flaggedCategories) ]
  ELSE [ view |-> "null" ]

\* ------------------------------------------------------------ properties

Final == { "approved", "rejected", "error" }

\* The last step was handleFileSelect on a file of type image/* or video/*.
SelectedAccepted ==
  /\ lastOp.op = "handleFileSelect"
  /\ lastOp.files # <<>>
  /\ lastOp.files[1].type[1] \in { "image", "video" }

\* The last step was handleFileSelect on no file or on a file of another type.
SelectedOther ==
  /\ lastOp.op = "handleFileSelect"
  /\ (lastOp.files = <<>> \/ lastOp.files[1].type[1] \notin { "image", "video" })

\* C1: when a run settles (with a result or a failure) and no record of the
\* list has the id the run was started for, the step leaves the upload list
\* exactly as it was.
C1_StaleResultDiscarded ==
  [][ \A run \in inflight :
        ( /\ \A other \in inflight' : other.call # run.call
          /\ ~HasId(uploadedMedia, run.id) )
        => uploadedMedia' = uploadedMedia ]_vars

\* C1 witness: a run has settled whose record had been removed and replaced
\* by a later selection, which is still being analyzed.
C1_Witness ==
  /\ lastOp.op = "settled"
  /\ lastOp.stale
  /\ Len(uploadedMedia) = 1
  /\ uploadedMedia[1].status = "analyzing"

\* C2 (as claimed): every preview URL allocated so far has been revoked at
\* most once, and exactly once if its record is no longer in the list.
C2_EveryUrlReleasedOnce ==
  \A u \in 1..nextUrl :
    /\ revoked[u] <= 1
    /\ u \notin UrlsOf(uploadedMedia) => revoked[u] = 1

\* C3 (as claimed): a record that stays in the list changes status only from
\* analyzing to approved, rejected or error, and an analysis result, once
\* set, stays as it is.
C3_StatusChangesOnce ==
  [][ \A i \in DOMAIN uploadedMedia : \A j \in DOMAIN uploadedMedia' :
        uploadedMedia[i].url = uploadedMedia'[j].url =>
          /\ uploadedMedia'[j].status # uploadedMedia[i].status =>
               /\ uploadedMedia[i].status = "analyzing"
               /\ uploadedMedia'[j].status \in Final
          /\ uploadedMedia[i].aiAnalysis # None =>
               uploadedMedia'[j].aiAnalysis = uploadedMedia[i].aiAnalysis ]_vars

\* C4: the upload list never holds more than one record, and after a file
\* was accepted while a record existed, the only record is the new one.
C4_AtMostOneRecord ==
  /\ Len(uploadedMedia) <= 1
  /\ (SelectedAccepted /\ lastOp.prevLen > 0) => UrlsOf(uploadedMedia) = { nextUrl }

\* C4 witness: a file was accepted while the list held a record.
C4_Witness ==
  /\ SelectedAccepted
  /\ lastOp.prevLen = 1
  /\ Len(uploadedMedia) = 1
  /\ nextUrl = 2

\* C5 (as claimed): at most one pipeline run is in flight.
C5_OneRunInFlight == Cardinality(inflight) <= 1

\* C6 (as claimed): while the modal is closed the upload list is empty and
\* every preview URL allocated so far has been revoked.
C6_ClosedMeansDestroyed ==
  ~open => /\ uploadedMedia = <<>>
           /\ \A u \in 1..nextUrl : revoked[u] >= 1

\* C7: the Publish control is enabled exactly when some record is approved
\* and no record is analyzing.
C7_PublishEnabledIff ==
  ~PublishDisabled <=>
    /\ \E i \in DOMAIN uploadedMedia : uploadedMedia[i].status = "approved"
    /\ \A i \in DOMAIN uploadedMedia : uploadedMedia[i].status # "analyzing"

\* C7 witness: the modal shows an approved record and Publish is enabled.
C7_Witness ==
  /\ open
  /\ ~PublishDisabled
  /\ Len(uploadedMedia) = 1

\* C8: right after handleFileSelect accepted a file the list is exactly the
\* new record: the file selected, the URL just allocated, status analyzing,
\* no analysis result and no error message.
C8_AcceptedSelection ==
  SelectedAccepted =>
    /\ Len(uploadedMedia) = 1
    /\ uploadedMedia[1].file = lastOp.files[1]
    /\ uploadedMedia[1].url = nextUrl
    /\ uploadedMedia[1].status = "analyzing"
    /\ uploadedMedia[1].aiAnalysis = None
    /\ uploadedMedia[1].error = None

\* C8 witness: a video was accepted while the list held another record.
C8_Witness ==
  /\ SelectedAccepted
  /\ lastOp.files[1].type[1] = "video"
  /\ lastOp.prevLen = 1
  /\ uploadedMedia[1].type = "video"

\* C9: handleFileSelect on no file, or on a file that is neither image/* nor
\* video/*, changes nothing: not the list, the URLs allocated and revoked,
\* the runs in flight, nor any other state of the component.
C9_RejectedSelectionNoOp ==
  [][ SelectedOther' =>
        UNCHANGED << open, uploadedMedia, isPublishing, showSuccessDialog, env,
                     inflight, timers, nextUrl, revoked >> ]_vars

\* C9 witness: a file of another type was selected while a record was being
\* analyzed, and the record and its run are still there.
C9_Witness ==
  /\ SelectedOther
  /\ lastOp.files # <<>>
  /\ lastOp.prevLen = 1
  /\ uploadedMedia[1].status = "analyzing"
  /\ inflight # {}

\* C10 (as claimed): with the credential missing no run ever waits at a
\* pipeline step (encoding or request), and a record that has left analyzing
\* is in status error with the configuration-error message.
C10_MissingKeyFailsImmediately ==
  MissingKey(env) =>
    /\ inflight = {}
    /\ \A i \in DOMAIN uploadedMedia :
         uploadedMedia[i].status # "analyzing" =>
           /\ uploadedMedia[i].status = "error"
           /\ uploadedMedia[i].error = ConfigErrorMessage

\* The record of id `id`, where listed, is in status error with a message.
ErrorWithMessage(list, id) ==
  \A i \in DOMAIN list :
    list[i].id = id => list[i].status = "error" /\ list[i].error # None

\* C11 (as claimed): a step in which a run fails (its encoding step rejects,
\* the credential is missing, the fetch rejects, the status is no success or
\* the body does not parse) while a record of its id is listed leaves that
\* record in status error with a message attached, and ends the run: no
\* request is issued again for it.
C11_FailureMovesToError ==
  [][ /\ \A run \in inflight : \A outcome \in EncodeOutcomes(run.file) :
           ( /\ EncodeSettles(run, outcome)
             /\ outcome # "resolved" \/ MissingKey(env)
             /\ HasId(uploadedMedia, run.id) )
           => /\ ErrorWithMessage(uploadedMedia', run.id)
              /\ \A other \in inflight' : other.call # run.call
      /\ \A run \in inflight : \A r \in FetchResults :
           ( /\ FetchSettles(run, r)
             /\ r.rejected \/ r.status # "200" \/ r.body.parsed = None
             /\ HasId(uploadedMedia, run.id) )
           => /\ ErrorWithMessage(uploadedMedia', run.id)
              /\ \A other \in inflight' : other.call # run.call ]_vars

\* `part` is one of the parts the message is put together from.
Contains(message, part) == \E k \in DOMAIN message : message[k] = part

\* C12: when the fetch settles with a non-success status while a record of
\* the run's id is listed, that record is left in status error with a message
\* that carries the status code and the raw response body and, for status
\* 404, the configured model identifier (the environment's, or the default
\* where the environment has none).
C12_HttpErrorCarriesStatus ==
  [][ \A run \in inflight : \A r \in FetchResults :
        ( /\ FetchSettles(run, r)
          /\ ~r.rejected
          /\ r.status # "200" )
        => \A i \in DOMAIN uploadedMedia' :
             uploadedMedia'[i].id = run.id =>
               /\ uploadedMedia'[i].status = "error"
               /\ Contains(uploadedMedia'[i].error, r.status)
               /\ Contains(uploadedMedia'[i].error, r.body.text)
               /\ r.status = "404" =>
                    Contains(uploadedMedia'[i].error,
                             IF env.model = Undefined
                             THEN "claude-sonnet-4-20250514" ELSE env.model) ]_vars

\* C12 witness: with no model configured, a 404 response has left the record
\* in status error with a message naming the default model.
C12_Witness ==
  /\ env.model = Undefined
  /\ lastOp.op = "settled"
  /\ ~lastOp.stale
  /\ Len(uploadedMedia) = 1
  /\ uploadedMedia[1].status = "error"
  /\ Contains(uploadedMedia[1].error, "404")
  /\ Contains(uploadedMedia[1].error, "claude-sonnet-4-20250514")

\* C13: when the fetch settles with a parseable 200 response whose verdict
\* has moderationStatus "safe", every listed record of the run's id is left
\* approved, and its analysis holds, field by field, the verdict's value
\* where the verdict has one and otherwise the default: no tags, no reasons,
\* confidence 0.9, the six flags false, contentType "Unknown" (contentType is
\* kept as the single element of a list).
C13_SafeVerdictApprovedWithDefaults ==
  [][ \A run \in inflight : \A r \in MockedResults :
        ( /\ FetchSettles(run, r)
          /\ ~r.rejected
          /\ r.status = "200"
          /\ r.body.parsed # None
          /\ r.body.parsed[1].moderationStatus = "safe" )
        => LET v == r.body.parsed[1] IN
           \A i \in DOMAIN uploadedMedia' :
             uploadedMedia'[i].id = run.id =>
               /\ uploadedMedia'[i].status = "approved"
               /\ uploadedMedia'[i].aiAnalysis # None
               /\ LET a == uploadedMedia'[i].aiAnalysis[1] IN
                  /\ a.moderationStatus = "safe"
                  /\ a.contentType = IF v.contentType = Undefined
                                     THEN << "Unknown" >> ELSE << v.contentType >>
                  /\ a.tags = IF v.tags = None THEN <<>> ELSE v.tags[1]
                  /\ a.moderationReasons =
                       IF v.moderationReasons = None THEN <<>> ELSE v.moderationReasons[1]
                  /\ a.confidence = IF v.confidence = None THEN 900 ELSE v.confidence[1]
                  /\ a.flaggedCategories =
                       IF v.flaggedCategories = None
                       THEN [ key \in { "nudity", "profanity", "violence", "illegalItems",
                                        "contactInfo", "offTopicContent" } |-> FALSE ]
                       ELSE v.flaggedCategories[1] ]_vars

\* C13 witness: a safe verdict that supplied its tags and left out its
\* confidence and its flags has left the listed record approved.
C13_Witness ==
  /\ lastOp.op = "settled"
  /\ ~lastOp.stale
  /\ Len(uploadedMedia) = 1
  /\ uploadedMedia[1].status = "approved"
  /\ uploadedMedia[1].aiAnalysis # None
  /\ uploadedMedia[1].aiAnalysis[1].tags = << "balayage", "blonde" >>
  /\ uploadedMedia[1].aiAnalysis[1].contentType = << "Unknown" >>
  /\ uploadedMedia[1].aiAnalysis[1].confidence = 900
  /\ \A key \in Categories : ~uploadedMedia[1].aiAnalysis[1].flaggedCategories[key]

\* The fetch of `run` settles with response `r`, a parseable 200 response
\* whose verdict is "unsafe" with exactly two categories flagged.
SettlesUnsafeTwoFlags(run, r) ==
  /\ FetchSettles(run, r)
  /\ ~r.rejected
  /\ r.status = "200"
  /\ r.body.parsed # None
  /\ r.body.parsed[1].moderationStatus = "unsafe"
  /\ r.body.parsed[1].flaggedCategories # None
  /\ Cardinality({ key \in Categories : r.body.parsed[1].flaggedCategories[1][key] }) = 2

\* C14 (as claimed): when the fetch settles with an unsafe verdict that flags
\* two of the six categories, every listed record of the run's id is left
\* rejected and its rejected panel has a row for each of the six categories,
\* marked "Flagged" for the two flagged ones and "Clear" for the other four.
C14_RejectedPanelSixRows ==
  [][ \A run \in inflight : \A r \in MockedResults :
        SettlesUnsafeTwoFlags(run, r)
        => \A i \in DOMAIN uploadedMedia' :
             uploadedMedia'[i].id = run.id =>
               /\ uploadedMedia'[i].status = "rejected"
               /\ AIAnalysisPanel(uploadedMedia'[i]).view = "rejected"
               /\ LET rows == AIAnalysisPanel(uploadedMedia'[i]).rows
                      flags == r.body.parsed[1].flaggedCategories[1]
                  IN \A k \in DOMAIN FLAG_LABELS :
                       \E j \in DOMAIN rows :
                         rows[j] = << FLAG_LABELS[k][2],
                                      IF flags[FLAG_LABELS[k][1]]
                                      THEN "Flagged" ELSE "Clear" >> ]_vars

\* C14 (amended): when the fetch settles with an unsafe verdict that flags
\* two of the six categories, every listed record of the run's id is left
\* rejected and its rejected panel has exactly two rows, one for each flagged
\* category and marked "Flagged"; the other four categories have no row and
\* nothing is marked "Clear".
C14_RejectedPanelFlaggedRowsOnly ==
  [][ \A run \in inflight : \A r \in MockedResults :
        SettlesUnsafeTwoFlags(run, r)
        => \A i \in DOMAIN uploadedMedia' :
             uploadedMedia'[i].id = run.id =>
               /\ uploadedMedia'[i].status = "rejected"
               /\ AIAnalysisPanel(uploadedMedia'[i]).view = "rejected"
               /\ LET rows == AIAnalysisPanel(uploadedMedia'[i]).rows
                      flags == r.body.parsed[1].flaggedCategories[1]
                  IN /\ Len(rows) = 2
                     /\ \A k \in DOMAIN FLAG_LABELS :
                          flags[FLAG_LABELS[k][1]] <=>
                            \E j \in DOMAIN rows : rows[j][1] = FLAG_LABELS[k][2]
                     /\ \A j \in DOMAIN rows : rows[j][2] = "Flagged" ]_vars

\* C14 witness: a verdict flagging violence and contactInfo has left the
\* listed record rejected, and its panel shows rows.
C14_Witness ==
  /\ lastOp.op = "settled"
  /\ ~lastOp.stale
  /\ Len(uploadedMedia) = 1
  /\ uploadedMedia[1].status = "rejected"
  /\ uploadedMedia[1].aiAnalysis # None
  /\ { key \in Categories : uploadedMedia[1].aiAnalysis[1].flaggedCategories[key] }
       = { "violence", "contactInfo" }
  /\ AIAnalysisPanel(uploadedMedia[1]).view = "rejected"
  /\ Len(AIAnalysisPanel(uploadedMedia[1]).rows) > 0

\* C15: where every started moderation call settles in the end, whenever the
\* list holds a record in status analyzing, a later state holds none: by
\* then every record that was analyzing is off the list or in status
\* approved, rejected or error.
C15_AnalyzingEventuallyLeaves == (analyzingCount > 0) ~> (analyzingCount = 0)

\* C15 witness: the only call has settled with a failure and the record it
\* was started for, still listed, has left analyzing for error.
C15_Witness ==
  /\ lastOp.op = "settled"
  /\ ~lastOp.stale
  /\ inflight = {}
  /\ nextUrl = 1
  /\ Len(uploadedMedia) = 1
  /\ uploadedMedia[1].status = "error"
  /\ analyzingCount = 0

\* C16 (as claimed): every listed record's fields agree with its status. An
\* approved or rejected record has an analysis and no error message, and is
\* approved exactly when the analysis's verdict is "safe"; an error record
\* has an error message and no analysis; an analyzing record has neither.
\* Hence AIAnalysisPanel returns a panel, never null, for a listed record.
C16_FieldsAgreeWithStatus ==
  \A i \in DOMAIN uploadedMedia :
    LET media == uploadedMedia[i] IN
    /\ media.status \in { "approved", "rejected" } =>
         /\ media.aiAnalysis # None
         /\ media.status = "approved" <=> media.aiAnalysis[1].moderationStatus = "safe"
         /\ media.error = None
    /\ media.status = "error" => media.error # None /\ media.aiAnalysis = None
    /\ media.status = "analyzing" => media.error = None /\ media.aiAnalysis = None
    /\ AIAnalysisPanel(media).view # "null"

====
